---- MODULE Spec2Model ----
(***************************************************************************)
(* algoroom backend: the Session Store, the Session Service, the Broadcast *)
(* Hub (ConnectionManager) and the two gateway handlers that drive them    *)
(* (the websocket endpoint and the update_code route).                     *)
(*                                                                         *)
(* Scheduling model (asyncio, one event loop): a coroutine runs without    *)
(* interruption from one await that suspends to the next.  The suspension  *)
(* points are the Store operations, websocket.accept(), the wait for the   *)
(* response to be written before a background task starts,                 *)
(* websocket.receive_text() and every connection.send_json().  One action  *)
(* of the model is the completion of one such await together with the      *)
(* synchronous code that follows it, up to the next await.                 *)
(***************************************************************************)
EXTENDS Integers, Sequences, FiniteSets, TLC

\* ------------------------------------------------------------------ bounds
NumConns == 2
NumReqs == 2
MaxSessions == 1
MaxCalls == 2

Conns == 1..NumConns
Reqs == 1..NumReqs
IdSeq == <<"s1", "s2", "s3">>
SessionIds == {IdSeq[i] : i \in 1..MaxSessions}
InvalidId == "invalid-session-id"
AnyIds == SessionIds \cup {InvalidId}
Language == {"javascript", "python"}
None == "None"
Codes == {"print(1)", "print(2)"}

VARIABLES
    store,        \* the repository's records: session id -> Session
    connections,  \* ConnectionManager._connections: session id -> list of websockets
    ws,           \* per websocket: the position and locals of websocket_endpoint
    req,          \* per PUT /sessions/{id}/code request: position and locals
    wsBc,         \* per websocket handler: the frame of the broadcast call it is in
    bgBc,         \* per request: the frame of its background broadcast call
    received,     \* per websocket: the events its client has been sent, in order
    invoked,      \* history: the requests in the order their broadcasts were invoked
    calls,        \* direct callers of the service's counter operations
    hung,         \* background broadcasts whose current send never completes
    missed,       \* history: connections a returned broadcast owed a send and skipped
    pruned        \* history: connections a returned broadcast removed as dead

vars == <<store, connections, ws, req, wsBc, bgBc, received, invoked, calls, hung,
          missed, pruned>>

\* ------------------------------------------------------------ data model
Session(id, code, language, createdAt, participants) ==
    [id |-> id, code |-> code, language |-> language,
     createdAt |-> createdAt, participants |-> participants]

NoSession == Session(None, "", "javascript", 0, 0)

JoinedEvent(sid, count, ts) ==
    [type |-> "participant_joined", sessionId |-> sid, code |-> None,
     language |-> None, participants |-> count, executionResult |-> None,
     timestamp |-> ts]

LeftEvent(sid, count, ts) ==
    [type |-> "participant_left", sessionId |-> sid, code |-> None,
     language |-> None, participants |-> count, executionResult |-> None,
     timestamp |-> ts]

\* An event's timestamp is datetime.now() at its construction.  Every
\* broadcast_* call constructs one event, so the instant is modelled by the
\* identity of the constructing call (the websocket or the request), and the
\* order of the instants of code updates by `invoked`.  participants is
\* Python None in a code_update.
CodeEvent(sid, code, language, ts) ==
    [type |-> "code_update", sessionId |-> sid, code |-> code,
     language |-> language, participants |-> 0, executionResult |-> None,
     timestamp |-> ts]

\* models.ExecutionResult; error is Python None on success
ExecutionResult(success, output, error, executionTime) ==
    [success |-> success, output |-> output, error |-> error,
     executionTime |-> executionTime]

\* the results a client posts
Results == {ExecutionResult(TRUE, "1", None, 3), ExecutionResult(FALSE, "", "boom", 0)}

\* code, language and participants are Python None in an execution_result
ExecEvent(sid, result, ts) ==
    [type |-> "execution_result", sessionId |-> sid, code |-> None,
     language |-> None, participants |-> 0, executionResult |-> result,
     timestamp |-> ts]

\* ------------------------------------------------------- Session Store
repo_create(st, language) ==
    LET id == IdSeq[Cardinality(DOMAIN st) + 1]
    IN  st @@ (id :> Session(id, "", language, Cardinality(DOMAIN st) + 1, 0))

repo_exists(st, id) == id \in DOMAIN st

repo_get(st, id) == IF id \in DOMAIN st THEN st[id] ELSE NoSession

repo_update(st, session) ==
    IF session.id \in DOMAIN st THEN [st EXCEPT ![session.id] = session] ELSE st

increment_participants(st, id) ==
    IF id \in DOMAIN st
    THEN [st EXCEPT ![id].participants = @ + 1]
    ELSE st

decrement_participants(st, id) ==
    IF id \in DOMAIN st
    THEN [st EXCEPT ![id].participants = IF @ > 0 THEN @ - 1 ELSE 0]
    ELSE st

\* ----------------------------------------------------- Session Service
create_session(st, language) == repo_create(st, language)

get_session(st, id) == repo_get(st, id)

\* faulty variant: the increment is computed from the count at creation
add_participant_stale(st, id) ==
    IF id \in DOMAIN st THEN [st EXCEPT ![id].participants = 1] ELSE st

\* faulty variant: the increment is made on every record
add_participant_all(st, id) == [s \in DOMAIN st |-> [st[s] EXCEPT !.participants = @ + 1]]

add_participant(st, id) == increment_participants(st, id)

\* faulty variant: the decrement goes below 0
remove_participant_unclamped(st, id) ==
    IF id \in DOMAIN st THEN [st EXCEPT ![id].participants = @ - 1] ELSE st

\* faulty variant: the decrement is not made
remove_participant_skipped(st, id) == st

remove_participant(st, id) == decrement_participants(st, id)

\* faulty variant: the record is rebuilt, with a new creation instant
MergeUpdate_rebuilt(session, code, language) ==
    Session(session.id, code, IF language # None THEN language ELSE session.language,
            0, session.participants)

\* faulty variant: only a supplied language is merged, the code is not
MergeUpdate_language_only(session, code, language) ==
    IF language # None THEN [session EXCEPT !.language = language] ELSE session

\* faulty variant: a request without a language falls back to the default
MergeUpdate_reset(session, code, language) ==
    IF language # None
    THEN [session EXCEPT !.code = code, !.language = language]
    ELSE [session EXCEPT !.code = code, !.language = "javascript"]

\* update_code, after its get: the copy of the record it read with the request merged in
MergeUpdate(session, code, language) ==
    IF language # None
    THEN [session EXCEPT !.code = code, !.language = language]
    ELSE [session EXCEPT !.code = code]

\* ------------------------------------------------------- Broadcast Hub
Range(s) == {s[i] : i \in 1..Len(s)}

\* faulty variant: the head is removed without looking for x
RemoveFirst_unchecked(s, x) == IF s = <<>> THEN s ELSE Tail(s)

RemoveFirst(s, x) ==
    IF x \notin Range(s) THEN s
    ELSE LET i == CHOOSE j \in 1..Len(s) : s[j] = x /\ \A k \in 1..(j - 1) : s[k] # x
         IN  SubSeq(s, 1, i - 1) \o SubSeq(s, i + 1, Len(s))

\* faulty variant: the connection is appended on both paths
connect_twice(conns, w, sid) ==
    IF sid \in DOMAIN conns
    THEN [conns EXCEPT ![sid] = Append(Append(@, w), w)]
    ELSE conns @@ (sid :> <<w, w>>)

connect(conns, w, sid) ==
    IF sid \in DOMAIN conns
    THEN [conns EXCEPT ![sid] = Append(@, w)]
    ELSE conns @@ (sid :> <<w>>)

\* faulty variant: the connection is left in the registry
disconnect_kept(conns, w, sid) == conns

\* faulty variant: the emptied list stays in the registry
disconnect_keeps_entry(conns, w, sid) ==
    IF sid \in DOMAIN conns
    THEN [conns EXCEPT ![sid] = RemoveFirst(@, w)]
    ELSE conns

\* faulty variant: the whole registry is dropped
disconnect_everywhere(conns, w, sid) == [s \in {} |-> <<>>]

disconnect(conns, w, sid) ==
    IF sid \in DOMAIN conns
    THEN LET l == RemoveFirst(conns[sid], w)
         IN  IF l = <<>>
             THEN [s \in DOMAIN conns \ {sid} |-> conns[s]]
             ELSE [conns EXCEPT ![sid] = l]
    ELSE conns

get_participant_count(conns, sid) ==
    IF sid \in DOMAIN conns THEN Len(conns[sid]) ELSE 0

Registered(conns, sid) ==
    IF sid \in DOMAIN conns THEN Range(conns[sid]) ELSE {}

\* faulty variant: the dead connections are left for a future pass
DisconnectNone(conns, dead, sid) == conns

RECURSIVE DisconnectAll(_, _, _)
DisconnectAll(conns, dead, sid) ==
    IF dead = <<>> THEN conns
    ELSE DisconnectAll(disconnect(conns, Head(dead), sid), Tail(dead), sid)

\* The frame of one broadcast call.  `detached` says that the list object the
\* call iterates is no longer (or never was) the one the registry holds: it
\* is then empty and stays empty, because every mutation goes through the
\* registry.  stayed (registered since the call began) and attempted are history.
IdleFrame ==
    [active |-> FALSE, sid |-> None, msg |-> CodeEvent(None, None, None, 0),
     idx |-> 0, target |-> 0, dead |-> <<>>, detached |-> FALSE,
     stayed |-> {}, attempted |-> {}]

NewFrame(conns, sid, msg) ==
    [active |-> TRUE, sid |-> sid, msg |-> msg, idx |-> 0, target |-> 0,
     dead |-> <<>>, detached |-> sid \notin DOMAIN conns,
     stayed |-> Registered(conns, sid), attempted |-> {}]

IteratedList(conns, f) ==
    IF f.detached \/ f.sid \notin DOMAIN conns THEN <<>> ELSE conns[f.sid]

\* faulty variant: a call that found no list for the id leaves an empty one
\* in the registry
BroadcastStep_registering(conns, f) ==
    LET l == IteratedList(conns, f)
    IN  IF f.idx < Len(l)
        THEN [frame |-> [f EXCEPT !.idx = @ + 1, !.target = l[f.idx + 1],
                                  !.attempted = @ \cup {l[f.idx + 1]}],
              conns |-> conns, returned |-> FALSE,
              missed |-> {}, pruned |-> {}, whole |-> {}]
        ELSE [frame |-> IdleFrame,
              conns |-> IF f.sid \in DOMAIN conns
                        THEN DisconnectAll(conns, f.dead, f.sid)
                        ELSE conns @@ (f.sid :> <<>>),
              returned |-> TRUE,
              missed |-> f.stayed \ f.attempted, pruned |-> Range(f.dead),
              whole |-> f.stayed]

\* the for loop of broadcast, from the top of an iteration to the next
\* send_json, or to the return of the call
BroadcastStep(conns, f) ==
    LET l == IteratedList(conns, f)
    IN  IF f.idx < Len(l)
        THEN [frame |-> [f EXCEPT !.idx = @ + 1, !.target = l[f.idx + 1],
                                  !.attempted = @ \cup {l[f.idx + 1]}],
              conns |-> conns, returned |-> FALSE,
              missed |-> {}, pruned |-> {}, whole |-> {}]
        ELSE [frame |-> IdleFrame,
              conns |-> DisconnectAll(conns, f.dead, f.sid), returned |-> TRUE,
              missed |-> f.stayed \ f.attempted, pruned |-> Range(f.dead),
              whole |-> f.stayed]

\* what a change of the registry means for the calls in flight
Track(frames, conns) ==
    [t \in DOMAIN frames |->
        IF frames[t].active
        THEN [frames[t] EXCEPT
                !.detached = @ \/ frames[t].sid \notin DOMAIN conns,
                !.stayed = @ \cap Registered(conns, frames[t].sid)]
        ELSE frames[t]]

\* ------------------------------------------------------------------ Init
WsIdle == [pc |-> "idle", sid |-> None]
ReqIdle == [pc |-> "idle", sid |-> None, code |-> None, language |-> None,
            result |-> None, session |-> NoSession, whole |-> {}]
NoCalls == [n |-> 0, m |-> 0, incLeft |-> 0, decLeft |-> 0, clamped |-> 0]
EmptyMap == [s \in {} |-> NoSession]

\* what no action of a handler touches
history == <<invoked, missed, pruned>>
drivers == <<calls, hung>>

\* the process after construction: no session, no connection, nothing in flight
Init ==
    /\ store = EmptyMap
    /\ connections = EmptyMap
    /\ ws = [w \in Conns |-> WsIdle]
    /\ req = [k \in Reqs |-> ReqIdle]
    /\ wsBc = [w \in Conns |-> IdleFrame]
    /\ bgBc = [k \in Reqs |-> IdleFrame]
    /\ received = [w \in Conns |-> <<>>]
    /\ invoked = <<>>
    /\ calls = NoCalls
    /\ hung = {}
    /\ missed = {}
    /\ pruned = {}

\* ------------------------------------------------- POST /sessions
\* faulty variant: another default
RequestLanguage_python(request) == IF request = None THEN "python" ELSE request

\* language = request.language if request else "javascript"; a request's
\* language is validated upstream and defaults to javascript as well
RequestLanguage(request) == IF request = None THEN "javascript" ELSE request

\* the route with its request body, which may be absent
PostSession(request) ==
    /\ Cardinality(DOMAIN store) < Len(IdSeq)
    /\ store' = create_session(store, RequestLanguage(request))
    /\ UNCHANGED <<connections, ws, req, wsBc, bgBc, received, history, drivers>>

CreateSession(language) ==
    /\ Cardinality(DOMAIN store) < MaxSessions
    /\ store' = create_session(store, language)
    /\ UNCHANGED <<connections, ws, req, wsBc, bgBc, received, history, drivers>>

\* ------------------------------------- websocket_endpoint (main.py)
\* faulty variant: the handler accepts without looking at the result of get_session
WsCheck_unchecked(w, sid) ==
    /\ ws[w].pc = "idle"
    /\ ws' = [ws EXCEPT ![w] = [pc |-> "accepting", sid |-> sid]]
    /\ UNCHANGED <<store, connections, req, wsBc, bgBc, received, history, drivers>>

\* get_session; an unknown session id is closed with 1008 and never registered
WsCheck(w, sid) ==
    /\ ws[w].pc = "idle"
    /\ ws' = [ws EXCEPT ![w] =
                IF repo_exists(store, sid)
                THEN [pc |-> "accepting", sid |-> sid]
                ELSE [pc |-> "closed", sid |-> sid]]
    /\ UNCHANGED <<store, connections, req, wsBc, bgBc, received, history, drivers>>

\* connection_manager.connect: accept() returned, the websocket is appended
WsAccept(w) ==
    /\ ws[w].pc = "accepting"
    /\ connections' = connect(connections, w, ws[w].sid)
    /\ ws' = [ws EXCEPT ![w].pc = "adding"]
    /\ wsBc' = Track(wsBc, connections')
    /\ bgBc' = Track(bgBc, connections')
    /\ UNCHANGED <<store, req, received, history, drivers>>

\* connection_manager.connect: accept() raised, nothing is registered and the
\* handler ends before its try block
WsAcceptFail(w) ==
    /\ ws[w].pc = "accepting"
    /\ ws' = [ws EXCEPT ![w].pc = "failed"]
    /\ UNCHANGED <<store, connections, req, wsBc, bgBc, received, history, drivers>>

\* service.add_participant
WsAdd(w) ==
    /\ ws[w].pc = "adding"
    /\ store' = add_participant(store, ws[w].sid)
    /\ ws' = [ws EXCEPT ![w].pc = "reading"]
    /\ UNCHANGED <<connections, req, wsBc, bgBc, received, history, drivers>>

\* faulty variant: the count of before the handler's own increment
ParticipantCount_before(st, sid) ==
    IF repo_exists(st, sid) THEN get_session(st, sid).participants - 1 ELSE 0

\* participant_count = updated_session.participants if updated_session else 0
ParticipantCount(st, sid) ==
    IF repo_exists(st, sid) THEN get_session(st, sid).participants ELSE 0

\* service.get_session, then broadcast_participant_joined up to its first send
WsJoined(w) ==
    /\ ws[w].pc = "reading"
    /\ LET sid == ws[w].sid
           count == ParticipantCount(store, sid)
           r == BroadcastStep(connections,
                    NewFrame(connections, sid, JoinedEvent(sid, count, w)))
       IN  /\ ws' = [ws EXCEPT ![w].pc = IF r.returned THEN "receiving" ELSE "joined"]
           /\ wsBc' = [wsBc EXCEPT ![w] = r.frame]
    /\ UNCHANGED <<store, connections, req, bgBc, received, history, drivers>>

\* The await of connection.send_json in a broadcast frame ends: delivered
\* (ok) or raised (the connection joins dead_connections); the loop then runs
\* to the next send or to the return of the call.
SendResult(f, ok) == IF ok THEN f ELSE [f EXCEPT !.dead = Append(@, f.target)]

Deliver(rcv, f, ok) == IF ok THEN [rcv EXCEPT ![f.target] = Append(@, f.msg)] ELSE rcv

\* a send of the handler's own participant_joined / participant_left broadcast
WsSend(w, ok) ==
    /\ wsBc[w].active
    /\ LET r == BroadcastStep(connections, SendResult(wsBc[w], ok))
       IN  /\ received' = Deliver(received, wsBc[w], ok)
           /\ connections' = r.conns
           /\ wsBc' = Track([wsBc EXCEPT ![w] = r.frame], r.conns)
           /\ bgBc' = Track(bgBc, r.conns)
           /\ missed' = missed \cup r.missed
           /\ pruned' = pruned \cup r.pruned
           /\ ws' = [ws EXCEPT ![w].pc =
                        IF ~r.returned THEN @
                        ELSE IF @ = "joined" THEN "receiving" ELSE "done"]
    /\ UNCHANGED <<store, req, invoked, drivers>>

\* receive_text raises (WebSocketDisconnect or any other error): the finally
\* block runs connection_manager.disconnect and awaits remove_participant
WsClose(w) ==
    /\ ws[w].pc = "receiving"
    /\ connections' = disconnect(connections, w, ws[w].sid)
    /\ wsBc' = Track(wsBc, connections')
    /\ bgBc' = Track(bgBc, connections')
    /\ ws' = [ws EXCEPT ![w].pc = "removing"]
    /\ UNCHANGED <<store, req, received, history, drivers>>

\* service.remove_participant
WsRemove(w) ==
    /\ ws[w].pc = "removing"
    /\ store' = remove_participant(store, ws[w].sid)
    /\ ws' = [ws EXCEPT ![w].pc = "reading_left"]
    /\ UNCHANGED <<connections, req, wsBc, bgBc, received, history, drivers>>

\* service.get_session, then broadcast_participant_left up to its first send
WsLeft(w) ==
    /\ ws[w].pc = "reading_left"
    /\ LET sid == ws[w].sid
           count == ParticipantCount(store, sid)
           r == BroadcastStep(connections,
                    NewFrame(connections, sid, LeftEvent(sid, count, w)))
       IN  /\ ws' = [ws EXCEPT ![w].pc = IF r.returned THEN "done" ELSE "left"]
           /\ wsBc' = [wsBc EXCEPT ![w] = r.frame]
    /\ UNCHANGED <<store, connections, req, bgBc, received, history, drivers>>

\* ------------------------- PUT /sessions/{id}/code (routers/sessions.py)
\* faulty variant: the result of the get is not looked at
UpdGet_unchecked(k, sid, code, language) ==
    /\ req[k].pc = "idle"
    /\ req' = [req EXCEPT ![k] =
                [pc |-> "got", sid |-> sid, code |-> code, language |-> language,
                 result |-> None, session |-> repo_get(store, sid), whole |-> {}]]
    /\ UNCHANGED <<store, connections, ws, wsBc, bgBc, received, history, drivers>>

\* service.update_code: repository.get; None is answered 404
UpdGet(k, sid, code, language) ==
    /\ req[k].pc = "idle"
    /\ req' = [req EXCEPT ![k] =
                IF repo_exists(store, sid)
                THEN [pc |-> "got", sid |-> sid, code |-> code, language |-> language,
                      result |-> None, session |-> repo_get(store, sid), whole |-> {}]
                ELSE [ReqIdle EXCEPT !.pc = "notfound", !.sid = sid]]
    /\ UNCHANGED <<store, connections, ws, wsBc, bgBc, received, history, drivers>>

\* service.update_code: model_copy(update=...), repository.update; the route
\* schedules the background broadcast and returns the session
UpdWrite(k) ==
    /\ req[k].pc = "got"
    /\ LET updated == MergeUpdate(req[k].session, req[k].code, req[k].language)
       IN  /\ store' = repo_update(store, updated)
           /\ req' = [req EXCEPT ![k].pc = "responded", ![k].session = updated]
    /\ UNCHANGED <<connections, ws, wsBc, bgBc, received, history, drivers>>

\* the background task: broadcast_code_update up to its first send
UpdBroadcast(k) ==
    /\ req[k].pc = "responded"
    /\ LET sid == req[k].sid
           r == BroadcastStep(connections,
                    NewFrame(connections, sid,
                        CodeEvent(sid, req[k].session.code, req[k].session.language, k)))
       IN  /\ req' = [req EXCEPT ![k].pc = IF r.returned THEN "done" ELSE "broadcasting",
                                 ![k].whole = r.whole]
           /\ bgBc' = [bgBc EXCEPT ![k] = r.frame]
    /\ invoked' = Append(invoked, k)
    /\ UNCHANGED <<store, connections, ws, wsBc, received, missed, pruned, drivers>>

\* a send of a background code_update broadcast
BgSend(k, ok) ==
    /\ bgBc[k].active
    /\ k \notin hung
    /\ LET r == BroadcastStep(connections, SendResult(bgBc[k], ok))
       IN  /\ received' = Deliver(received, bgBc[k], ok)
           /\ connections' = r.conns
           /\ bgBc' = Track([bgBc EXCEPT ![k] = r.frame], r.conns)
           /\ wsBc' = Track(wsBc, r.conns)
           /\ missed' = missed \cup r.missed
           /\ pruned' = pruned \cup r.pruned
           /\ req' = [req EXCEPT ![k].pc = IF r.returned THEN "done" ELSE @,
                                 ![k].whole = r.whole]
    /\ UNCHANGED <<store, ws, invoked, drivers>>

\* -------------- POST /sessions/{id}/execution-result (routers/sessions.py)
\* service.get_session; None is answered 404, otherwise the route schedules
\* the background broadcast and returns 204
ExecGet(k, sid, result) ==
    /\ req[k].pc = "idle"
    /\ req' = [req EXCEPT ![k] =
                IF repo_exists(store, sid)
                THEN [ReqIdle EXCEPT !.pc = "scheduled", !.sid = sid, !.result = result]
                ELSE [ReqIdle EXCEPT !.pc = "notfound", !.sid = sid]]
    /\ UNCHANGED <<store, connections, ws, wsBc, bgBc, received, history, drivers>>

\* the background task: broadcast_execution_result up to its first send
ExecBroadcast(k) ==
    /\ req[k].pc = "scheduled"
    /\ LET sid == req[k].sid
           r == BroadcastStep(connections,
                    NewFrame(connections, sid, ExecEvent(sid, req[k].result, k)))
       IN  /\ req' = [req EXCEPT ![k].pc = IF r.returned THEN "done" ELSE "broadcasting",
                                 ![k].whole = r.whole]
           /\ bgBc' = [bgBc EXCEPT ![k] = r.frame]
    /\ UNCHANGED <<store, connections, ws, wsBc, received, history, drivers>>

\* the subscriber's transport stops draining: this send_json never returns
SendHang(k) ==
    /\ bgBc[k].active
    /\ hung = {}
    /\ hung' = {k}
    /\ UNCHANGED <<store, connections, ws, req, wsBc, bgBc, received, history, calls>>

\* -------------------- direct callers of the service's counter operations
CallAdd(sid) ==
    /\ calls.incLeft > 0
    /\ store' = add_participant(store, sid)
    /\ calls' = [calls EXCEPT !.incLeft = @ - 1]
    /\ UNCHANGED <<connections, ws, req, wsBc, bgBc, received, history, hung>>

CallRemove(sid) ==
    /\ calls.decLeft > 0
    /\ store' = remove_participant(store, sid)
    /\ calls' = [calls EXCEPT !.decLeft = @ - 1,
                              !.clamped = IF ParticipantCount(store, sid) = 0
                                          THEN @ + 1 ELSE @]
    /\ UNCHANGED <<connections, ws, req, wsBc, bgBc, received, history, hung>>

\* ------------------------------------------------------------------ Next
WsNext ==
    \/ \E w \in Conns, sid \in AnyIds : WsCheck(w, sid)
    \/ \E w \in Conns : WsAccept(w)
    \/ \E w \in Conns : WsAcceptFail(w)
    \/ \E w \in Conns : WsAdd(w)
    \/ \E w \in Conns : WsJoined(w)
    \/ \E w \in Conns, ok \in BOOLEAN : WsSend(w, ok)
    \/ \E w \in Conns : WsClose(w)
    \/ \E w \in Conns : WsRemove(w)
    \/ \E w \in Conns : WsLeft(w)

UpdNext ==
    \/ \E k \in Reqs, sid \in AnyIds, c \in Codes, l \in Language \cup {None} :
          UpdGet(k, sid, c, l)
    \/ \E k \in Reqs : UpdWrite(k)
    \/ \E k \in Reqs : UpdBroadcast(k)
    \/ \E k \in Reqs, ok \in BOOLEAN : BgSend(k, ok)

\* the sends of a scheduled broadcast are BgSend, whatever the event
ExecNext ==
    \/ \E k \in Reqs, sid \in AnyIds, r \in Results : ExecGet(k, sid, r)
    \/ \E k \in Reqs : ExecBroadcast(k)

Next ==
    \/ \E l \in Language : CreateSession(l)
    \/ WsNext
    \/ UpdNext
    \/ ExecNext

\* the whole system from its construction
Spec == Init /\ [][Next]_vars

\* ------------------------------------------------- scenario specifications
\* Each starts in a state the whole system reaches and runs the handlers the
\* scenario is about.

Quiet ==
    /\ req = [k \in Reqs |-> ReqIdle]
    /\ wsBc = [w \in Conns |-> IdleFrame]
    /\ bgBc = [k \in Reqs |-> IdleFrame]
    /\ invoked = <<>>
    /\ hung = {}
    /\ missed = {}
    /\ pruned = {}

\* after one POST /sessions
InitCreated ==
    /\ \E l \in Language : store = create_session(EmptyMap, l)
    /\ connections = EmptyMap
    /\ ws = [w \in Conns |-> WsIdle]
    /\ received = [w \in Conns |-> <<>>]
    /\ calls = NoCalls
    /\ Quiet

\* the websocket handlers on one existing session
SpecWs == InitCreated /\ [][WsNext]_vars

\* after one POST /sessions and every websocket having connected to the
\* session, one after the other, each join broadcast delivered before the next
\* connect: the count is NumConns and websocket w has been sent the joins w..NumConns
InitJoined ==
    /\ \E l \in Language :
          store = [create_session(EmptyMap, l) EXCEPT ![IdSeq[1]].participants = NumConns]
    /\ connections = (IdSeq[1] :> [i \in 1..NumConns |-> i])
    /\ ws = [w \in Conns |-> [pc |-> "receiving", sid |-> IdSeq[1]]]
    /\ received = [w \in Conns |->
                     [i \in 1..(NumConns - w + 1) |->
                         JoinedEvent(IdSeq[1], w + i - 1, w + i - 1)]]
    /\ calls = NoCalls
    /\ Quiet

\* code updates on a session whose subscribers stay connected (a send may
\* still fail, and the broadcast then prunes the connection)
SpecUpd == InitJoined /\ [][UpdNext]_vars

\* after one POST /sessions; n add_participant and m remove_participant calls
\* are about to be made on the session, next to the update_code requests
InitStore ==
    /\ store = create_session(EmptyMap, "javascript")
    /\ connections = EmptyMap
    /\ ws = [w \in Conns |-> WsIdle]
    /\ received = [w \in Conns |-> <<>>]
    /\ \E n \in 0..MaxCalls, m \in 0..MaxCalls :
          calls = [n |-> n, m |-> m, incLeft |-> n, decLeft |-> m, clamped |-> 0]
    /\ Quiet

StoreNext ==
    \/ \E sid \in DOMAIN store : CallAdd(sid)
    \/ \E sid \in DOMAIN store : CallRemove(sid)
    \/ \E k \in Reqs, sid \in DOMAIN store, l \in Language \cup {None} :
          UpdGet(k, sid, "print(1)", l)
    \/ \E k \in Reqs : UpdWrite(k)

\* the Session Service under concurrent callers of its counter operations and
\* of update_code, up to the response of each request
SpecStore == InitStore /\ [][StoreNext]_vars

PruneNext ==
    \/ \E k \in Reqs, sid \in DOMAIN store : UpdGet(k, sid, "print(1)", None)
    \/ \E k \in Reqs : UpdWrite(k)
    \/ \E k \in Reqs : UpdBroadcast(k)
    \/ \E k \in Reqs, ok \in BOOLEAN : BgSend(k, ok)

\* broadcasts of one code to connected subscribers whose sends may fail
SpecPrune == InitJoined /\ [][PruneNext]_vars

\* a send that never returns, under the scheduler's fairness: every request
\* handler and background task that can take a step eventually takes one
SpecHang == InitJoined /\ [][UpdNext \/ \E k \in Reqs : SendHang(k)]_vars /\ WF_vars(UpdNext)

LeaveNext ==
    \/ \E w \in Conns : WsClose(w)
    \/ \E w \in Conns : WsRemove(w)
    \/ \E w \in Conns : WsLeft(w)
    \/ \E w \in Conns, ok \in BOOLEAN : WsSend(w, ok)

\* one code update of the session, by the first request
OneUpdNext ==
    \/ UpdGet(1, IdSeq[1], "print(1)", None)
    \/ UpdWrite(1)
    \/ UpdBroadcast(1)
    \/ \E ok \in BOOLEAN : BgSend(1, ok)

\* the subscribers of a session leave, their sockets closing in any order and
\* at any time, next to one code update; any send may fail.  The Store answers
\* every call, so a handler in its finally block reaches its broadcast.
SpecLeave ==
    /\ InitJoined
    /\ [][LeaveNext \/ OneUpdNext]_vars
    /\ \A w \in Conns : WF_vars(WsRemove(w) \/ WsLeft(w))

AnswerNext ==
    \/ \E k \in Reqs, sid \in AnyIds : UpdGet(k, sid, "print(1)", None)
    \/ \E k \in Reqs : UpdWrite(k)
    \/ \E k \in Reqs : UpdBroadcast(k)
    \/ \E k \in Reqs, ok \in BOOLEAN : BgSend(k, ok)

\* what the event loop runs without waiting for a client: the Store answers,
\* a scheduled background task starts, a send returns or raises
Progress ==
    \/ \E k \in Reqs : UpdWrite(k)
    \/ \E k \in Reqs : UpdBroadcast(k)
    \/ \E k \in Reqs, ok \in BOOLEAN : BgSend(k, ok)

\* code updates for existing and unknown session ids, no send hanging, under
\* the scheduler's fairness
SpecAnswer == InitJoined /\ [][AnswerNext]_vars /\ WF_vars(Progress)

\* no other websocket handler is between its get_session and its receive loop
OthersSettled(w) ==
    \A v \in Conns \ {w} : ws[v].pc \notin {"accepting", "adding", "reading", "joined"}

SeqNext ==
    \/ \E w \in Conns, sid \in SessionIds : OthersSettled(w) /\ WsCheck(w, sid)
    \/ \E w \in Conns : WsCheck(w, InvalidId)
    \/ \E w \in Conns : WsAccept(w)
    \/ \E w \in Conns : WsAcceptFail(w)
    \/ \E w \in Conns : WsAdd(w)
    \/ \E w \in Conns : WsJoined(w)
    \/ \E w \in Conns, ok \in BOOLEAN : WsSend(w, ok)

\* clients connect to one existing session one after the other, each handler
\* reaching its receive loop before the next client connects; attempts for an
\* unknown session id come at any time; nobody disconnects
SpecSeq == InitCreated /\ [][SeqNext]_vars

\* after two POST /sessions, one for each language
TwoSessions == create_session(create_session(EmptyMap, "javascript"), "python")

InitTwo ==
    /\ store = TwoSessions
    /\ connections = EmptyMap
    /\ ws = [w \in Conns |-> WsIdle]
    /\ received = [w \in Conns |-> <<>>]
    /\ calls = NoCalls
    /\ Quiet

TwoNext ==
    \/ \E w \in Conns, sid \in DOMAIN store : OthersSettled(w) /\ WsCheck(w, sid)
    \/ \E w \in Conns : WsAccept(w)
    \/ \E w \in Conns : WsAdd(w)
    \/ \E w \in Conns : WsJoined(w)
    \/ \E w \in Conns, ok \in BOOLEAN : WsSend(w, ok)
    \/ \E w \in Conns : WsClose(w)
    \/ \E w \in Conns : WsRemove(w)
    \/ \E w \in Conns : WsLeft(w)

\* two sessions side by side: clients connect to either (one connect at a
\* time) and leave at any time; any send may fail
SpecTwo == InitTwo /\ [][TwoNext]_vars

\* two sessions, and MaxCalls add_participant and MaxCalls remove_participant
\* calls about to be made on either, next to the update_code requests
InitTwoCalls ==
    /\ store = TwoSessions
    /\ connections = EmptyMap
    /\ ws = [w \in Conns |-> WsIdle]
    /\ received = [w \in Conns |-> <<>>]
    /\ calls = [n |-> MaxCalls, m |-> MaxCalls, incLeft |-> MaxCalls,
                decLeft |-> MaxCalls, clamped |-> 0]
    /\ Quiet

TwoCallsNext ==
    \/ \E sid \in DOMAIN store : CallAdd(sid)
    \/ \E sid \in DOMAIN store : CallRemove(sid)
    \/ \E k \in Reqs, sid \in DOMAIN store : UpdGet(k, sid, "print(1)", None)
    \/ \E k \in Reqs : UpdWrite(k)

\* the Session Service under concurrent callers on two sessions
SpecTwoCalls == InitTwoCalls /\ [][TwoCallsNext]_vars

RoundNext ==
    \/ \E k \in Reqs, sid \in DOMAIN store, c \in Codes, l \in Language \cup {None} :
          UpdGet(k, sid, c, l)
    \/ \E k \in Reqs : UpdWrite(k)

\* update_code calls with every code and language, overlapping or one after
\* the other, up to the response of each
SpecRound == InitCreated /\ [][RoundNext]_vars

\* the process after construction, with MaxCalls add_participant and MaxCalls
\* remove_participant calls about to be made
InitCalls ==
    /\ store = EmptyMap
    /\ connections = EmptyMap
    /\ ws = [w \in Conns |-> WsIdle]
    /\ received = [w \in Conns |-> <<>>]
    /\ calls = [n |-> MaxCalls, m |-> MaxCalls, incLeft |-> MaxCalls,
                decLeft |-> MaxCalls, clamped |-> 0]
    /\ Quiet

CreateNext ==
    \/ \E request \in Language \cup {None} : PostSession(request)
    \/ \E sid \in DOMAIN store : CallAdd(sid)
    \/ \E sid \in DOMAIN store : CallRemove(sid)

\* sessions are created, with and without a language, while the counters of
\* the sessions that exist are in use
SpecCreate == InitCalls /\ [][CreateNext]_vars

\* the whole life of the connections of one session: clients connect one at
\* a time (an accept may fail), close at any time, also during the join
\* broadcast of another, and any send may fail
SpecLife == InitCreated /\ [][SeqNext \/ LeaveNext]_vars

\* execution results are posted for existing and unknown session ids while the
\* subscribers stay connected; any send may fail
SpecExec ==
    InitJoined /\ [][ExecNext \/ \E k \in Reqs, ok \in BOOLEAN : BgSend(k, ok)]_vars

\* clients connect to a session, one at a time, next to one code update
SpecJoin == InitCreated /\ [][SeqNext \/ OneUpdNext]_vars

\* ------------------------------------------------------------------ claims
\* the place of request k's code_update in what websocket w was sent, 0 if none
CodePos(w, k) ==
    LET at == {i \in 1..Len(received[w]) :
                  received[w][i].type = "code_update" /\ received[w][i].timestamp = k}
    IN  IF at = {} THEN 0 ELSE CHOOSE i \in at : \A j \in at : i <= j

InvokedBefore(k1, k2) ==
    \E i, j \in 1..Len(invoked) : i < j /\ invoked[i] = k1 /\ invoked[j] = k2

\* C1: when broadcast(E1) was invoked before broadcast(E2) for one session and
\* both calls have returned, every subscriber registered for the whole of both
\* calls that was sent both events was sent E1 before E2.
C1_BroadcastOrdering ==
    \A k1, k2 \in Reqs :
        (/\ InvokedBefore(k1, k2)
         /\ req[k1].pc = "done" /\ req[k2].pc = "done"
         /\ req[k1].sid = req[k2].sid)
        => \A w \in req[k1].whole \cap req[k2].whole :
              (CodePos(w, k1) > 0 /\ CodePos(w, k2) > 0) => CodePos(w, k1) < CodePos(w, k2)

\* C2: no two subscribers are sent the same two events in opposite orders.
C2_SameRelativeOrder ==
    \A a, b \in Conns :
        \A i1, j1 \in 1..Len(received[a]), i2, j2 \in 1..Len(received[b]) :
            ~(/\ i1 < j1 /\ i2 < j2
              /\ received[a][i1] = received[b][j2]
              /\ received[a][j1] = received[b][i2])

\* C3: a broadcast that has returned attempted a send to every connection that
\* was registered when it started and stayed registered until it returned.
C3_NoMissedSubscriber == missed = {}

NoDisconnectYet ==
    /\ \A w \in Conns : ws[w].pc \notin {"removing", "reading_left", "left", "done"}
    /\ pruned = {}

\* C4: while no connection has disconnected, the participant_joined counts a
\* subscriber is sent never go down.
C4_JoinedCountNeverRegresses ==
    NoDisconnectYet =>
        \A w \in Conns : \A i, j \in 1..Len(received[w]) :
            (/\ i < j
             /\ received[w][i].type = "participant_joined"
             /\ received[w][j].type = "participant_joined")
            => received[w][i].participants <= received[w][j].participants

\* C5: the write of update_code leaves the stored participants of every
\* session as it found it.
C5_UpdateKeepsParticipants ==
    [][(\E k \in Reqs : req[k].pc = "got" /\ req'[k].pc = "responded")
        => \A sid \in DOMAIN store : store'[sid].participants = store[sid].participants]_vars

CountersSettled ==
    /\ calls.incLeft = 0
    /\ calls.decLeft = 0
    /\ \A k \in Reqs : req[k].pc = "idle"

\* C6 as stated: after N increments and M decrements (N >= M) in any order and
\* nothing else, the count is N - M.
C6_FinalCountIsDifference ==
    (CountersSettled /\ calls.n >= calls.m)
        => \A sid \in DOMAIN store : store[sid].participants = calls.n - calls.m

\* C6 as amended: after N increments and M decrements (N >= M) in any order and
\* nothing else, the count is N - M plus the number of decrements that ran
\* while the count was 0.
C6_FinalCountWithClamps ==
    (CountersSettled /\ calls.n >= calls.m)
        => \A sid \in DOMAIN store :
              store[sid].participants = calls.n - calls.m + calls.clamped

\* all calls made, N >= M > 0, and a decrement ran while the count was 0
C6_Witness ==
    /\ CountersSettled
    /\ calls.n >= calls.m
    /\ calls.clamped > 0
    /\ \E sid \in DOMAIN store : store[sid].participants > calls.n - calls.m

\* C7: the participants of every stored session is at least 0 in every state.
C7_ParticipantsNonNegative ==
    \A sid \in DOMAIN store : store[sid].participants >= 0

\* more decrements than increments have run, one of them at count 0
C7_Witness ==
    /\ calls.m > calls.n
    /\ calls.decLeft = 0
    /\ calls.clamped > 0
    /\ \E sid \in DOMAIN store : store[sid].participants = 0

HandlersSettled ==
    \A w \in Conns : ws[w].pc \in {"idle", "closed", "failed", "receiving", "done"}

\* C8: whenever every websocket handler has completed its counter mutation
\* and the broadcast that follows it, the number of registered connections of
\* a session equals the store's participants of that session.
C8_HubCountEqualsStoreCount ==
    HandlersSettled =>
        \A sid \in DOMAIN store :
            get_participant_count(connections, sid) = store[sid].participants

\* C9: once a send of a broadcast hangs, every other subscriber of the session
\* that the broadcast has not yet reached is eventually sent the event (or
\* leaves the session).
C9_HangDoesNotStall ==
    \A k \in Reqs, w \in Conns :
        (/\ k \in hung
         /\ bgBc[k].active
         /\ w \in Registered(connections, bgBc[k].sid)
         /\ w \notin bgBc[k].attempted)
        ~> (CodePos(w, k) > 0 \/ w \notin Registered(connections, req[k].sid))

AllRegistered == UNION {Registered(connections, sid) : sid \in DOMAIN connections}

\* some broadcast frame issues a send to w in this step
IssuesSendTo(w) ==
    \/ \E t \in Conns : /\ wsBc'[t].active /\ wsBc'[t].target = w
                        /\ (~wsBc[t].active \/ wsBc'[t].idx # wsBc[t].idx)
    \/ \E k \in Reqs :  /\ bgBc'[k].active /\ bgBc'[k].target = w
                        /\ (~bgBc[k].active \/ bgBc'[k].idx # bgBc[k].idx)

\* C10: a connection whose send failed is, from the return of that broadcast
\* call on, not registered (so not counted by get_participant_count), and no
\* broadcast issues a send to it any more.
C10_FailedConnectionPruned ==
    /\ [](pruned \cap AllRegistered = {})
    /\ [][\A w \in pruned : ~IssuesSendTo(w)]_vars

\* a connection was pruned while its handler still waits in receive_text, and
\* a later broadcast is in flight that has sent to another connection and not
\* to the pruned one
C10_Witness ==
    \E w \in pruned, k \in Reqs :
        /\ ws[w].pc = "receiving"
        /\ bgBc[k].active
        /\ bgBc[k].attempted # {}
        /\ w \notin bgBc[k].attempted
        /\ bgBc[k].sid = ws[w].sid

\* C11: a broadcast that has returned delivered its event to every subscriber
\* that was registered for the whole call and whose send did not raise (a
\* subscriber whose send raised is pruned), and those subscribers stay registered.
C11_FailureDoesNotBlockOthers ==
    \A k \in Reqs :
        req[k].pc = "done" =>
            \A w \in req[k].whole \ pruned :
                /\ CodePos(w, k) > 0
                /\ w \in Registered(connections, req[k].sid)

\* the connections that were removed from the registry, by their handler's
\* disconnect or by a broadcast's clean-up
Gone == pruned \cup {w \in Conns : ws[w].pc \in {"removing", "reading_left", "left", "done"}}

\* C12: no broadcast issues a send to a connection that was disconnected or
\* pruned before, and no connection is ever sent its own participant_left.
C12_NothingSentToDisconnected ==
    /\ [][\A w \in Gone : ~IssuesSendTo(w)]_vars
    /\ [](\A w \in Conns : \A i \in 1..Len(received[w]) :
            ~(received[w][i].type = "participant_left" /\ received[w][i].timestamp = w))

\* a connection has left, its participant_left was delivered to a remaining
\* subscriber and not to itself
C12_Witness ==
    \E w, v \in Conns :
        /\ w # v
        /\ ws[w].pc = "done"
        /\ \E i \in 1..Len(received[v]) :
              received[v][i].type = "participant_left" /\ received[v][i].timestamp = w
        /\ \A i \in 1..Len(received[w]) : received[w][i].type # "participant_left"

\* C13: on every registry the hub reaches, disconnect of a connection that is
\* not registered under the session id (the id having an entry or not) leaves
\* the registry unchanged, and disconnect twice equals disconnect once.
C13_DisconnectIdempotent ==
    \A w \in Conns, sid \in AnyIds :
        LET once == disconnect(connections, w, sid)
        IN  /\ disconnect(once, w, sid) = once
            /\ (w \notin Registered(connections, sid) => once = connections)

\* a broadcast pruned a connection, and its handler then called disconnect for
\* it again while another connection is still registered
C13_Witness ==
    \E w \in pruned :
        /\ ws[w].pc = "removing"
        /\ connections # EmptyMap
        /\ w \notin AllRegistered

\* C19: a handler whose socket closed (receive_text raised, whatever the
\* error) has removed its connection from the hub, makes the Store's decrement
\* for its session as its next step, and eventually invokes the broadcast of
\* participant_left.
C19_DisconnectHandlingRuns ==
    /\ [](\A w \in Conns :
            ws[w].pc \in {"removing", "reading_left", "left", "done"}
                => w \notin AllRegistered)
    /\ [][\A w \in Conns :
            (ws[w].pc = "removing" /\ ws'[w].pc # "removing")
                => store' = decrement_participants(store, ws[w].sid)]_vars
    /\ \A w \in Conns :
          (ws[w].pc = "removing")
              ~> \/ ws[w].pc = "done"
                 \/ /\ ws[w].pc = "left"
                    /\ wsBc[w].active
                    /\ wsBc[w].msg.type = "participant_left"

\* the socket of a connection failed during a send, a broadcast pruned it, and
\* its handler has since run the whole disconnect handling: the counter went
\* down and a remaining subscriber was sent its participant_left
C19_Witness ==
    \E w \in pruned, v \in Conns :
        /\ ws[w].pc = "done"
        /\ ws[v].pc = "receiving"
        /\ store[ws[w].sid].participants < NumConns
        /\ \E i \in 1..Len(received[v]) :
              received[v][i].type = "participant_left" /\ received[v][i].timestamp = w

\* C14: update_code fetches the stored record of an existing session, and its
\* write leaves the session with the request's code, and with the request's
\* language if one was supplied, otherwise with the language of the record
\* it fetched, whatever that language is; the call returns the stored record.
C14_UpdateMergesCodeAndLanguage ==
    [][\A k \in Reqs :
        /\ (req[k].pc = "idle" /\ req'[k].pc = "got")
              => req'[k].session = store[req'[k].sid]
        /\ (req[k].pc = "got" /\ req'[k].pc = "responded")
              => /\ store'[req[k].sid].code = req[k].code
                 /\ store'[req[k].sid].language =
                       IF req[k].language # None
                       THEN req[k].language
                       ELSE req[k].session.language
                 /\ req'[k].session = store'[req[k].sid]]_vars

\* an update without a language has been written to a session whose language
\* is not the default, and the session still has that language
C14_Witness ==
    \E k \in Reqs :
        /\ req[k].pc = "responded"
        /\ req[k].language = None
        /\ req[k].session.language = "python"
        /\ store[req[k].sid] = req[k].session
        /\ store[req[k].sid].code = req[k].code

\* C20: the id and the createdAt of every stored session are those its
\* creation returned, whatever update_code, add_participant and
\* remove_participant calls have run.
C20_IdAndCreatedAtImmutable ==
    \A sid \in DOMAIN store :
        LET created == repo_get(create_session(EmptyMap, "javascript"), sid)
        IN  /\ get_session(store, sid).id = created.id
            /\ get_session(store, sid).createdAt = created.createdAt

\* an update_code has been written and increments and decrements have run
C20_Witness ==
    /\ \E k \in Reqs : req[k].pc = "responded" /\ store[req[k].sid].code = req[k].code
    /\ calls.n > 0 /\ calls.incLeft = 0
    /\ calls.m > 0 /\ calls.decLeft = 0

\* C15: a request for an id that is not stored is answered not-found and goes
\* no further: it writes no record, creates none, and invokes no broadcast.
C15_UnknownIdNotFound ==
    /\ [](\A k \in Reqs :
            (req[k].pc # "idle" /\ ~repo_exists(store, req[k].sid))
                => /\ req[k].pc = "notfound"
                   /\ ~bgBc[k].active
                   /\ k \notin Range(invoked))
    /\ [][\A k \in Reqs :
            (req[k].pc = "idle" /\ req'[k].pc = "notfound")
                => /\ store' = store
                   /\ received' = received
                   /\ connections' = connections]_vars

\* a request for an unknown id was answered not-found while a subscriber of
\* an existing session has received a code_update of another request
C15_Witness ==
    \E k, j \in Reqs, w \in Conns :
        /\ req[k].pc = "notfound"
        /\ req[k].sid = InvalidId
        /\ CodePos(w, j) > 0

\* C17: once update_code has returned a session record, every subscriber then
\* registered for the session is eventually sent a code_update with that
\* session id and the code and language of the returned record, unless it
\* leaves the registry first.
C17_UpdateReachesSubscribers ==
    \A k \in Reqs, w \in Conns :
        (req[k].pc = "responded" /\ w \in Registered(connections, req[k].sid))
            ~> \/ w \notin Registered(connections, req[k].sid)
               \/ /\ CodePos(w, k) > 0
                  /\ received[w][CodePos(w, k)] =
                        CodeEvent(req[k].sid, req[k].session.code,
                                  req[k].session.language, k)

\* C16: after the k-th of a sequence of connects to a session (each join
\* broadcast finished before the next connect, no send failed, nobody left),
\* the store's participants is k, and the i-th subscriber has been sent
\* exactly the participant_joined events of the connects i..k, each with the
\* count of its connect.
C16_SequentialJoinsAnnounceCount ==
    (pruned = {} /\ \A w \in Conns : OthersSettled(w) /\ wsBc[w] = IdleFrame) =>
        \A sid \in DOMAIN store :
            LET l == IF sid \in DOMAIN connections THEN connections[sid] ELSE <<>>
                n == Len(l)
            IN  /\ store[sid].participants = n
                /\ \A i \in 1..n :
                      received[l[i]] =
                          [j \in 1..(n - i + 1) |-> JoinedEvent(sid, i + j - 1, l[i + j - 1])]

\* every client has connected in turn, and the first one has been sent the
\* participant_joined of the last connect with participants = NumConns
C16_Witness ==
    /\ pruned = {}
    /\ \A w \in Conns : ws[w].pc = "receiving" /\ wsBc[w] = IdleFrame
    /\ \E sid \in DOMAIN connections :
          /\ Len(connections[sid]) = NumConns
          /\ LET first == connections[sid][1]
             IN  /\ Len(received[first]) = NumConns
                 /\ received[first][NumConns].participants = NumConns

\* C18: a websocket attempt for a session id that is not stored ends closed
\* and is never registered; the step that closes it changes neither the
\* registry, nor a stored record, nor what any subscriber has been sent.
C18_UnknownSessionNeverRegistered ==
    /\ [](\A w \in Conns :
            (ws[w].pc # "idle" /\ ~repo_exists(store, ws[w].sid))
                => /\ ws[w].pc = "closed"
                   /\ w \notin AllRegistered
                   /\ ~wsBc[w].active
                   /\ received[w] = <<>>)
    /\ [][\A w \in Conns :
            (ws[w].pc = "idle" /\ ws'[w].pc = "closed")
                => /\ connections' = connections
                   /\ store' = store
                   /\ received' = received]_vars

\* an attempt for the unknown id was closed while a subscriber of the existing
\* session is registered, counted and has been sent its participant_joined
C18_Witness ==
    \E w, v \in Conns :
        /\ ws[w].pc = "closed"
        /\ ws[w].sid = InvalidId
        /\ ws[v].pc = "receiving"
        /\ v \in Registered(connections, ws[v].sid)
        /\ store[ws[v].sid].participants = 1
        /\ received[v] # <<>>

\* C21: an update_code, add_participant or remove_participant on a session
\* leaves the stored record of every other session as it was.
C21_StoreSessionIsolation ==
    [][\A sid \in DOMAIN store :
        (\/ CallAdd(sid)
         \/ CallRemove(sid)
         \/ \E k \in Reqs : UpdWrite(k) /\ req[k].sid = sid)
            => \A t \in DOMAIN store \ {sid} : store'[t] = store[t]]_vars

\* the first session was updated and has a participant, after increments and
\* decrements on both sessions, while the second is as it was created
C21_Witness ==
    /\ store[IdSeq[1]].code = "print(1)"
    /\ store[IdSeq[1]].participants > 0
    /\ store[IdSeq[2]] = TwoSessions[IdSeq[2]]
    /\ calls.incLeft = 0
    /\ calls.decLeft = 0
    /\ calls.clamped > 0

\* a step of a connect, disconnect or broadcast on session t: of a websocket
\* handler of t or of the broadcast call it is in
ActsOn(t) ==
    \E w \in Conns :
        /\ t \in {ws[w].sid, ws'[w].sid}
        /\ (ws'[w] # ws[w] \/ wsBc'[w] # wsBc[w])

\* C30: a connection is only ever sent events of the session it registered
\* under, every broadcast targets a connection registered under its own
\* session id, and the subscriber list of a session changes only in a step of
\* a connect, disconnect or broadcast on that session.
C30_HubSessionIsolation ==
    /\ [](\A w \in Conns :
            /\ \A i \in 1..Len(received[w]) : received[w][i].sessionId = ws[w].sid
            /\ wsBc[w].active => ws[wsBc[w].target].sid = wsBc[w].sid)
    /\ [][\A t \in DOMAIN store :
            (t \in DOMAIN connections) # (t \in DOMAIN connections')
            \/ (t \in DOMAIN connections /\ connections'[t] # connections[t])
                => ActsOn(t)]_vars

\* both sessions had a subscriber; the one of the first session left and the
\* send of its participant_left was issued to nobody of the second session,
\* whose subscriber is still registered with only its own participant_joined
C30_Witness ==
    \E w, v \in Conns :
        /\ ws[w].sid = IdSeq[1] /\ ws[v].sid = IdSeq[2]
        /\ ws[w].pc = "done"
        /\ connections = (IdSeq[2] :> <<v>>)
        /\ received[v] = <<JoinedEvent(IdSeq[2], 1, v)>>

\* C22: the write of update_code leaves the store with the request's code and,
\* if one was supplied, the request's language, and returns the record that a
\* get then returns; code and language change in no other step.  So a get
\* after an update, with no other update's write in between, returns that
\* update's code and language, and the last write wins.
C22_RoundTripLastWriteWins ==
    /\ [][\A k \in Reqs :
            UpdWrite(k)
                => /\ get_session(store', req[k].sid).code = req[k].code
                   /\ req[k].language # None
                         => get_session(store', req[k].sid).language = req[k].language
                   /\ req'[k].session = get_session(store', req[k].sid)]_vars
    /\ [][\A sid \in DOMAIN store :
            (\/ store'[sid].code # store[sid].code
             \/ store'[sid].language # store[sid].language)
                => \E k \in Reqs : UpdWrite(k) /\ req[k].sid = sid]_vars

\* two update_code calls with different codes and languages have completed,
\* and a get returns the code and language of one of them, the record that
\* call returned
C22_Witness ==
    \E k, j \in Reqs :
        /\ req[k].pc = "responded" /\ req[j].pc = "responded"
        /\ get_session(store, req[j].sid) = req[j].session
        /\ req[j].code # req[k].code
        /\ req[j].language # None /\ req[k].language # None
        /\ req[j].language # req[k].language
        /\ store[req[j].sid].code = req[j].code
        /\ store[req[j].sid].language = req[j].language

\* C23: POST /sessions with language L, or with none, adds one record under a
\* fresh id, with that id, code "", participants 0 and language L, javascript
\* when none was given, and leaves every other record as it was.
C23_CreateDefaults ==
    [][\A request \in Language \cup {None} :
        PostSession(request) =>
            \E id \in DOMAIN store' \ DOMAIN store :
                /\ DOMAIN store' = DOMAIN store \cup {id}
                /\ get_session(store', id).id = id
                /\ get_session(store', id).code = ""
                /\ get_session(store', id).participants = 0
                /\ get_session(store', id).language =
                      IF request = None THEN "javascript" ELSE request
                /\ \A t \in DOMAIN store : store'[t] = store[t]]_vars

\* a python session was created while an older session has participants, and
\* it has no participant and no code
C23_Witness ==
    \E old, new \in DOMAIN store :
        /\ store[old].createdAt < store[new].createdAt
        /\ store[old].participants > 0
        /\ store[new].language = "python"
        /\ store[new].participants = 0
        /\ store[new].code = ""

\* the last code_update websocket w was sent, 0 if none
LastCodePos(w) ==
    LET at == {i \in 1..Len(received[w]) : received[w][i].type = "code_update"}
    IN  IF at = {} THEN 0 ELSE CHOOSE i \in at : \A j \in at : j <= i

\* C24: when two update_code requests on one session have run and both their
\* broadcasts have returned, the last code_update every registered subscriber
\* was sent carries the code and language the store holds for the session
\* (stated for the runs in which no send failed).
C24_NoStaleView ==
    \A k, j \in Reqs :
        (/\ k # j
         /\ pruned = {}
         /\ req[k].pc = "done" /\ req[j].pc = "done"
         /\ req[k].sid = req[j].sid)
        => \A w \in Registered(connections, req[k].sid) :
              LastCodePos(w) > 0 =>
                  /\ received[w][LastCodePos(w)].code = store[req[k].sid].code
                  /\ received[w][LastCodePos(w)].language = store[req[k].sid].language

\* C25: every session id the registry holds maps to at least one connection.
C25_NoEmptyRegistryEntry ==
    \A sid \in DOMAIN connections : connections[sid] # <<>>

\* connections were registered, one was pruned and the others disconnected,
\* and the registry has no entry left
C25_Witness ==
    /\ connections = EmptyMap
    /\ pruned # {}
    /\ \E w \in Conns \ pruned : ws[w].pc = "done"

\* the handlers between their increment and their decrement of session sid
Counted(sid) ==
    {w \in Conns : ws[w].sid = sid /\ ws[w].pc \in {"reading", "joined", "receiving", "removing"}}

\* C28: the store's participants of a session is the number of connections
\* whose handler has made its increment and not yet its decrement, pruned or
\* not: each handler changes the counter once up and once down, and a step in
\* which a broadcast prunes leaves the store unchanged.
C28_CounterChangedTwicePerConnection ==
    /\ [](\A sid \in DOMAIN store : store[sid].participants = Cardinality(Counted(sid)))
    /\ [][pruned' # pruned => store' = store]_vars

\* a connection was pruned and its handler then ran its own disconnect, while
\* another connection is still counted
C28_Witness ==
    \E w \in pruned, v \in Conns :
        /\ ws[w].pc = "done"
        /\ ws[v].pc = "receiving"
        /\ store[ws[v].sid].participants = 1

\* C26: a registered connection was accepted before (its handler is past
\* connect, a failed accept is never registered), and a connection that was
\* removed by disconnect or by pruning is not registered again and is sent
\* nothing more.
C26_ConnectionLifecycle ==
    /\ [](\A w \in AllRegistered : ws[w].pc \in {"adding", "reading", "joined", "receiving"})
    /\ [][\A w \in Gone : w \notin AllRegistered' /\ received'[w] = received[w]]_vars

\* C27: once every websocket handler that connected to a session has finished
\* its disconnect sequence and no update_code request is in progress, the
\* store's participants of the session is 0 and the registry has no entry for it.
C27_QuiescentBalance ==
    (/\ \A w \in Conns : ws[w].pc = "done"
     /\ \A k \in Reqs : req[k].pc \in {"idle", "notfound", "done"})
        => \A sid \in DOMAIN store :
              /\ store[sid].participants = 0
              /\ sid \notin DOMAIN connections

\* C29: every participant_joined a connection was sent carries participants >= 1.
C29_JoinedCountAtLeastOne ==
    \A w \in Conns : \A i \in 1..Len(received[w]) :
        received[w][i].type = "participant_joined" => received[w][i].participants >= 1


\* C31: a connection appears at most once in the registry: never twice in one
\* session's list and never under two session ids, so get_participant_count
\* counts every connection once.
C31_NoDuplicateRegistration ==
    /\ \A sid \in DOMAIN connections : \A i, j \in 1..Len(connections[sid]) :
          connections[sid][i] = connections[sid][j] => i = j
    /\ \A s, t \in DOMAIN connections :
          s # t => Registered(connections, s) \cap Registered(connections, t) = {}
    /\ \A sid \in DOMAIN connections :
          get_participant_count(connections, sid) = Cardinality(Registered(connections, sid))

\* two handlers have registered their connections under the same session id
\* and both have reached their receive loop
C31_Witness ==
    \E sid \in DOMAIN connections :
        /\ get_participant_count(connections, sid) >= 2
        /\ \A w \in Registered(connections, sid) : ws[w].pc = "receiving" /\ ws[w].sid = sid

\* the session ids no connection is registered under
EmptyIds == {sid \in AnyIds \cup Range(IdSeq) : Registered(connections, sid) = {}}

\* C32: on a session id with no registered connection get_participant_count
\* returns 0 and a broadcast returns without a send, and the registry is the
\* same afterwards, with no entry for that id.
C32_EmptyIdLeavesRegistryUnchanged ==
    /\ [](\A sid \in EmptyIds :
            /\ get_participant_count(connections, sid) = 0
            /\ LET r == BroadcastStep(connections,
                            NewFrame(connections, sid, LeftEvent(sid, 0, 0)))
               IN  /\ r.returned
                   /\ ~r.frame.active
                   /\ r.conns = connections
                   /\ sid \notin DOMAIN r.conns)
    /\ [][\A w \in Conns :
            (/\ ws[w].pc \in {"reading", "reading_left"}
             /\ ws'[w].pc # ws[w].pc
             /\ ws[w].sid \in EmptyIds)
            => /\ connections' = connections
               /\ ws[w].sid \notin DOMAIN connections'
               /\ received' = received
               /\ ~wsBc'[w].active
               /\ ws'[w].pc \in {"receiving", "done"}]_vars
    /\ [][\A k \in Reqs :
            (/\ req[k].pc = "responded"
             /\ req'[k].pc # "responded"
             /\ req[k].sid \in EmptyIds)
            => /\ connections' = connections
               /\ req[k].sid \notin DOMAIN connections'
               /\ received' = received
               /\ ~bgBc'[k].active
               /\ req'[k].pc = "done"]_vars

\* every handler has left, the last participant_left broadcast was made on
\* an id with no registered connection, and nothing was pruned or delivered
C32_Witness ==
    /\ \A w \in Conns : ws[w].pc = "done" /\ ~wsBc[w].active
    /\ connections = EmptyMap
    /\ pruned = {}
    /\ \A w \in Conns : \A i \in 1..Len(received[w]) :
          received[w][i].type # "participant_left"
====
